---- MODULE Spec2Model ----
(***************************************************************************)
(* Model of package pcaputil (src/pcaputil/write.go): a Writer that        *)
(* encodes a PCAP v2.4 little-endian, nanosecond-resolution capture file   *)
(* onto an io.Writer sink.                                                 *)
(*                                                                         *)
(* TLC's integers are 32 bits wide, so the machine integers of the code    *)
(* are kept as limbs of 16 bits:                                           *)
(*   uint32        [hi, lo]                 value hi*65536 + lo            *)
(*   int64 / int   [neg, mag = <<m3,m2,m1,m0>>]   sign and magnitude,      *)
(*                 magnitude m3*2^48 + m2*2^32 + m1*2^16 + m0 <= 2^63      *)
(* int is taken as 64 bits wide.  ci.Timestamp is held as the int64 that   *)
(* ci.Timestamp.UnixNano() returns.  The sink content is a sequence of     *)
(* bytes 0..255.                                                           *)
(***************************************************************************)
EXTENDS Integers, Sequences, FiniteSets, TLC

VARIABLES
    sink,        \* bytes the io.Writer behind Writer.w has accepted so far
    hist,        \* one record per completed call made one after the other
    gor,         \* the goroutines calling WritePacket concurrently
    wlog,        \* the sink writes issued by the goroutines, in sink order
    overlapped   \* TRUE once two concurrent WritePacket calls were in progress together

vars == <<sink, hist, gor, wlog, overlapped>>

---------------------------------------------------------------------------
(* Bounds of the model *)

\* longest payload handed to WritePacket
MaxLen == 4
\* number of calls made one after the other on one writer
MaxCalls == 3

---------------------------------------------------------------------------
(* Machine integers *)

U32(hi, lo) == [hi |-> hi, lo |-> lo]

I64(neg, m3, m2, m1, m0) == [neg |-> neg, mag |-> <<m3, m2, m1, m0>>]

\* a small natural number as a Go int (len(data))
IntOf(n) == I64(FALSE, 0, 0, n \div 65536, n % 65536)

\* magnitudes compared most significant limb first
MagLess(a, b) ==
    \E i \in 1..4 : a[i] < b[i] /\ \A j \in 1..(i - 1) : a[j] = b[j]

\* Go's a < b on signed integers
IntLess(a, b) ==
    IF a.neg # b.neg THEN a.neg
    ELSE IF a.neg THEN MagLess(b.mag, a.mag)
    ELSE MagLess(a.mag, b.mag)

\* Go's a > b
IntGreater(a, b) == IntLess(b, a)

\* binary long division, 16 bits at a time: the remainder r (r < d < 2^30)
\* left by the limbs above takes in the bits i..0 of limb; q collects the
\* quotient bits, and is below 65536 because r < d
RECURSIVE LimbDiv(_, _, _, _, _)
LimbDiv(r, limb, d, i, q) ==
    IF i < 0 THEN [q |-> q, r |-> r]
    ELSE LET r2 == 2 * r + ((limb \div (2 ^ i)) % 2)
         IN  IF r2 >= d
             THEN LimbDiv(r2 - d, limb, d, i - 1, 2 * q + 1)
             ELSE LimbDiv(r2, limb, d, i - 1, 2 * q)

\* quotient magnitude and remainder of a 64-bit magnitude divided by d
DivMod(mag, d) ==
    LET s1 == LimbDiv(0, mag[1], d, 15, 0)
        s2 == LimbDiv(s1.r, mag[2], d, 15, 0)
        s3 == LimbDiv(s2.r, mag[3], d, 15, 0)
        s4 == LimbDiv(s3.r, mag[4], d, 15, 0)
    IN  [quo |-> <<s1.q, s2.q, s3.q, s4.q>>, rem |-> s4.r]

\* Go's a / d and a % d on int64: the quotient is truncated toward zero and
\* the remainder has the sign of the dividend
QuoRem(a, d) ==
    LET dm == DivMod(a.mag, d)
    IN  [quo |-> [neg |-> a.neg /\ dm.quo # <<0, 0, 0, 0>>, mag |-> dm.quo],
         rem |-> [neg |-> a.neg /\ dm.rem # 0,
                  mag |-> <<0, 0, dm.rem \div 65536, dm.rem % 65536>>]]

\* Go's conversion uint32(x) of a signed integer: the low 32 bits of its
\* two's complement representation
Uint32(x) ==
    LET hi == x.mag[3]
        lo == x.mag[4]
    IN  IF ~x.neg THEN U32(hi, lo)
        ELSE IF lo = 0 THEN U32((65536 - hi) % 65536, 0)
        ELSE U32(65535 - hi, 65536 - lo)

---------------------------------------------------------------------------
(* encoding/binary.LittleEndian as the code uses it *)

\* variant: the four bytes most significant first
PutUint32_BigEndian(v) ==
    <<v.hi \div 256, v.hi % 256, v.lo \div 256, v.lo % 256>>

PutUint32(v) ==
    <<v.lo % 256, v.lo \div 256, v.hi % 256, v.hi \div 256>>

PutUint16(n) == <<n % 256, n \div 256>>

---------------------------------------------------------------------------
(* Constants of the package *)

magicNanoseconds == U32(41394, 15437)       \* 0xA1B23C4D
versionMajor == 2
versionMinor == 4
nanosPerSecond == 1000000000

---------------------------------------------------------------------------
(* The buffers the two operations build *)

\* buf of WriteFileHeader: bytes 8:16 stay 0
fileHeaderBuf(snaplen, linktype) ==
    PutUint32(magicNanoseconds) \o PutUint16(versionMajor) \o PutUint16(versionMinor)
        \o <<0, 0, 0, 0>> \o <<0, 0, 0, 0>>
        \o PutUint32(snaplen) \o PutUint32(linktype)

\* variant: the timestamp split at 10^6 instead of 10^9
packetTime_Millis(nanos) ==
    LET qr == QuoRem(nanos, 1000000)
    IN  [secs |-> Uint32(qr.quo), nsecs |-> Uint32(qr.rem)]

\* secs, nsecs of writePacketHeader, nanos being ci.Timestamp.UnixNano()
packetTime(nanos) ==
    LET qr == QuoRem(nanos, nanosPerSecond)
    IN  [secs |-> Uint32(qr.quo), nsecs |-> Uint32(qr.rem)]

\* variant: the original length stored before the captured length
writePacketHeader_LengthsSwapped(ci) ==
    LET t == packetTime(ci.Timestamp)
    IN  PutUint32(t.secs) \o PutUint32(t.nsecs)
            \o PutUint32(Uint32(ci.Length)) \o PutUint32(Uint32(ci.CaptureLength))

\* buf of writePacketHeader; ci.Timestamp is held as its UnixNano() value
writePacketHeader(ci) ==
    LET t == packetTime(ci.Timestamp)
    IN  PutUint32(t.secs) \o PutUint32(t.nsecs)
            \o PutUint32(Uint32(ci.CaptureLength)) \o PutUint32(Uint32(ci.Length))

---------------------------------------------------------------------------
(* Errors *)

Nil == "nil"
ErrSink == "sink error"
ErrPacketHeader == "error writing packet header: sink error"
ErrLengthMismatch == "capture length does not match data length"
ErrCaptureGreater == "invalid capture info: capture length > length"

ValidationErrors == {ErrLengthMismatch, ErrCaptureGreater}

\* the two checks at the top of WritePacket
Validate(ci, data) ==
    IF ci.CaptureLength # IntOf(Len(data)) THEN ErrLengthMismatch
    ELSE IF IntGreater(ci.CaptureLength, ci.Length) THEN ErrCaptureGreater
    ELSE Nil

---------------------------------------------------------------------------
(* The sink: an io.Writer.  A Write of p either accepts all of p and        *)
(* returns no error, or returns an error after accepting a prefix of p:     *)
(* none of it ("refuse") or its first half ("short").                       *)

SinkAnswers == {"accept", "refuse", "short"}

\* the number of bytes of a write of len bytes the sink takes
Taken(ans, len) ==
    IF ans = "accept" THEN len ELSE IF ans = "short" THEN len \div 2 ELSE 0

\* the sink content after w.w.Write(p) answered ans
SinkWrite(s, p, ans) == s \o SubSeq(p, 1, Taken(ans, Len(p)))

\* the record of one sink write: what was written, the answer, whether Write
\* returned no error, and the number of bytes taken
WriteRecord(kind, p, ans) ==
    [kind |-> kind, p |-> p, ans |-> ans, ok |-> (ans = "accept"),
     n |-> Taken(ans, Len(p))]

---------------------------------------------------------------------------
(* The operations, as the sink writes they issue *)

\* the sink writes of WriteFileHeader, in order
FileHeaderWrites(snaplen, linktype) ==
    <<[kind |-> "file header", p |-> fileHeaderBuf(snaplen, linktype)]>>

\* variant: the payload padded with zero bytes to a multiple of 4 bytes
PacketWrites_Padded(ci, data) ==
    <<[kind |-> "packet header", p |-> writePacketHeader(ci)],
      [kind |-> "payload", p |-> data \o [i \in 1..((4 - (Len(data) % 4)) % 4) |-> 0]]>>

\* variant: the payload written before the packet header
PacketWrites_PayloadFirst(ci, data) ==
    <<[kind |-> "payload", p |-> data],
      [kind |-> "packet header", p |-> writePacketHeader(ci)]>>

\* the sink writes of WritePacket, in order: writePacketHeader, then the data
PacketWrites(ci, data) ==
    <<[kind |-> "packet header", p |-> writePacketHeader(ci)],
      [kind |-> "payload", p |-> data]>>

\* the error a call returns when the write of this kind failed
WriteError(kind) ==
    IF kind = "packet header" THEN ErrPacketHeader ELSE ErrSink

\* the writes parts[k..] issued one after the other against the answers
\* rs[k..] of the sink; the first failed write ends the call
RECURSIVE Issue(_, _, _, _, _)
Issue(s, parts, rs, k, done) ==
    IF k > Len(parts) THEN [sink |-> s, writes |-> done, err |-> Nil]
    ELSE LET w == WriteRecord(parts[k].kind, parts[k].p, rs[k])
             s1 == SinkWrite(s, parts[k].p, rs[k])
         IN  IF ~w.ok
             THEN [sink |-> s1, writes |-> Append(done, w),
                   err |-> WriteError(parts[k].kind)]
             ELSE Issue(s1, parts, rs, k + 1, Append(done, w))

\* variant of Issue: a failed write does not end the call
RECURSIVE IssueSwallowing(_, _, _, _, _)
IssueSwallowing(s, parts, rs, k, done) ==
    IF k > Len(parts) THEN [sink |-> s, writes |-> done, err |-> Nil]
    ELSE LET w == WriteRecord(parts[k].kind, parts[k].p, rs[k])
             s1 == SinkWrite(s, parts[k].p, rs[k])
         IN  IssueSwallowing(s1, parts, rs, k + 1, Append(done, w))

\* variant: a file header is refused on a sink that already holds bytes
WriteFileHeaderOn_Once(s, snaplen, linktype, rs) ==
    IF s # <<>> THEN [sink |-> s, writes |-> <<>>, err |-> "header already written"]
    ELSE Issue(s, FileHeaderWrites(snaplen, linktype), rs, 1, <<>>)

\* WriteFileHeader on a sink holding s
WriteFileHeaderOn(s, snaplen, linktype, rs) ==
    Issue(s, FileHeaderWrites(snaplen, linktype), rs, 1, <<>>)

\* variant: without the check of the captured length against len(data)
WritePacketOn_NoLengthCheck(s, ci, data, rs) ==
    IF IntGreater(ci.CaptureLength, ci.Length)
    THEN [sink |-> s, writes |-> <<>>, err |-> ErrCaptureGreater]
    ELSE Issue(s, PacketWrites(ci, data), rs, 1, <<>>)

\* variant: without the check of the captured length against the length
WritePacketOn_NoOrderCheck(s, ci, data, rs) ==
    IF ci.CaptureLength # IntOf(Len(data))
    THEN [sink |-> s, writes |-> <<>>, err |-> ErrLengthMismatch]
    ELSE Issue(s, PacketWrites(ci, data), rs, 1, <<>>)

\* variant: the error of the packet-header write is dropped
WritePacketOn_Swallowing(s, ci, data, rs) ==
    IF Validate(ci, data) # Nil
    THEN [sink |-> s, writes |-> <<>>, err |-> Validate(ci, data)]
    ELSE IssueSwallowing(s, PacketWrites(ci, data), rs, 1, <<>>)

\* WritePacket on a sink holding s
WritePacketOn(s, ci, data, rs) ==
    IF Validate(ci, data) # Nil
    THEN [sink |-> s, writes |-> <<>>, err |-> Validate(ci, data)]
    ELSE Issue(s, PacketWrites(ci, data), rs, 1, <<>>)

---------------------------------------------------------------------------
(* Inputs *)

\* payload bytes: DE AD BE EF repeated
PayloadByte(i) == <<222, 173, 190, 239>>[((i - 1) % 4) + 1]
Payload(n) == [i \in 1..n |-> PayloadByte(i)]

\* snapshot lengths: 0, 65536, 0x12345678, 0x80000000, 0xFFFFFFFF
AnySnaplen == {U32(0, 0), U32(1, 0), U32(4660, 22136), U32(32768, 0), U32(65535, 65535)}
\* link types: 0, 1 (Ethernet), 0x0102ABCD, 0xFFFFFFFF
AnyLinkType == {U32(0, 0), U32(0, 1), U32(258, 43981), U32(65535, 65535)}

\* ci.Timestamp.UnixNano()
TsZero == I64(FALSE, 0, 0, 0, 0)
TsLastNano == I64(FALSE, 0, 0, 15258, 51711)             \* 999999999
TsOneSecond == I64(FALSE, 0, 0, 15258, 51712)            \* 1000000000
TsScenarioB == I64(FALSE, 0, 232, 54437, 4596)           \* 1000 s + 500 ns
TsLastFitting == I64(FALSE, 15258, 51711, 65535, 65535)  \* 2^32 * 10^9 - 1
TsFirstWrapping == I64(FALSE, 15258, 51712, 0, 0)        \* 2^32 * 10^9
TsMaxInt64 == I64(FALSE, 32767, 65535, 65535, 65535)     \* 2^63 - 1
TsMinusOneNano == I64(TRUE, 0, 0, 0, 1)                  \* -1
TsMinusOneAndHalf == I64(TRUE, 0, 0, 22888, 12032)       \* -1500000000
TsMinInt64 == I64(TRUE, 32768, 0, 0, 0)                  \* -2^63

AnyTimestamp ==
    {TsZero, TsLastNano, TsOneSecond, TsScenarioB, TsLastFitting, TsFirstWrapping,
     TsMaxInt64, TsMinusOneNano, TsMinusOneAndHalf, TsMinInt64}

AnyPayload == {Payload(n) : n \in 0..MaxLen}

\* ci.CaptureLength: 0..MaxLen+1, -1, 2^32 + MaxLen
AnyCaptureLength ==
    {IntOf(n) : n \in 0..(MaxLen + 1)} \cup {I64(TRUE, 0, 0, 0, 1), I64(FALSE, 0, 1, 0, MaxLen)}

\* ci.Length: 0, MaxLen-1, MaxLen, MaxLen+1, 65536, 2^32 - 1, 2^32 + MaxLen, -1
AnyLength ==
    {IntOf(0), IntOf(MaxLen - 1), IntOf(MaxLen), IntOf(MaxLen + 1), IntOf(65536),
     I64(FALSE, 0, 0, 65535, 65535), I64(FALSE, 0, 1, 0, MaxLen), I64(TRUE, 0, 0, 0, 1)}

\* the inputs of the runs of several calls
SomeSnaplen == {U32(1, 0)}
SomeLinkType == {U32(0, 1)}
SomeTimestamp == {TsScenarioB}
SomePayload == {Payload(1), Payload(MaxLen)}
SomeCaptureLength == {IntOf(1), IntOf(MaxLen)}
SomeLength == {IntOf(MaxLen)}

---------------------------------------------------------------------------
(* Calls made one after the other *)

HeaderCall(snaplen, linktype, out) ==
    [op |-> "WriteFileHeader", args |-> [snaplen |-> snaplen, linktype |-> linktype],
     before |-> sink, writes |-> out.writes, err |-> out.err]

PacketCall(ci, data, out) ==
    [op |-> "WritePacket", args |-> [ci |-> ci, data |-> data],
     before |-> sink, writes |-> out.writes, err |-> out.err]

WriteFileHeaderOver(snaplens, linktypes, limit) ==
    /\ Len(hist) < limit
    /\ \E snaplen \in snaplens, linktype \in linktypes, r \in SinkAnswers :
          LET out == WriteFileHeaderOn(sink, snaplen, linktype, <<r>>)
          IN  /\ sink' = out.sink
              /\ hist' = Append(hist, HeaderCall(snaplen, linktype, out))
    /\ UNCHANGED <<gor, wlog, overlapped>>

WritePacketOver(timestamps, payloads, caplens, lengths, limit) ==
    /\ Len(hist) < limit
    /\ \E ts \in timestamps, data \in payloads, caplen \in caplens, length \in lengths :
          \E r1 \in SinkAnswers, r2 \in SinkAnswers :
              LET ci == [Timestamp |-> ts, CaptureLength |-> caplen, Length |-> length]
                  out == WritePacketOn(sink, ci, data, <<r1, r2>>)
              IN  /\ sink' = out.sink
                  /\ hist' = Append(hist, PacketCall(ci, data, out))
    /\ UNCHANGED <<gor, wlog, overlapped>>

WriteFileHeader == WriteFileHeaderOver(SomeSnaplen, SomeLinkType, MaxCalls)

WritePacket ==
    WritePacketOver(SomeTimestamp, SomePayload, SomeCaptureLength, SomeLength, MaxCalls)

\* one call with its arguments drawn from the wide sets
WriteFileHeaderAny == WriteFileHeaderOver(AnySnaplen, AnyLinkType, 1)

WritePacketAny ==
    WritePacketOver(AnyTimestamp, AnyPayload, AnyCaptureLength, AnyLength, 1)

---------------------------------------------------------------------------
(* Two goroutines calling WritePacket on the same Writer, with nothing to   *)
(* keep the calls apart.  A step is what a call does up to and including    *)
(* its next sink write; the sink takes one Write at a time.                 *)

Goroutines == {1, 2}

\* goroutine g enters WritePacket: the two checks, and the error return when
\* one of them fails
Call(g) ==
    /\ gor[g].pc = "idle"
    /\ \E ts \in SomeTimestamp, data \in SomePayload, caplen \in SomeCaptureLength,
          length \in SomeLength :
          LET ci == [Timestamp |-> ts, CaptureLength |-> caplen, Length |-> length]
              err == Validate(ci, data)
          IN  /\ gor' = [gor EXCEPT ![g] =
                    IF err # Nil
                    THEN [pc |-> "returned", ci |-> ci, data |-> data, k |-> 0, err |-> err]
                    ELSE [pc |-> "writing", ci |-> ci, data |-> data, k |-> 1, err |-> Nil]]
              /\ overlapped' = (overlapped
                    \/ (err = Nil /\ \E h \in Goroutines \ {g} : gor[h].pc = "writing"))
    /\ UNCHANGED <<sink, hist, wlog>>

\* goroutine g issues the next sink write of its call: the packet header,
\* then the payload; a failed write ends the call with its error
WriteStep(g) ==
    /\ gor[g].pc = "writing"
    /\ \E ans \in SinkAnswers :
          LET parts == PacketWrites(gor[g].ci, gor[g].data)
              part == parts[gor[g].k]
              w == WriteRecord(part.kind, part.p, ans)
          IN  /\ sink' = SinkWrite(sink, part.p, ans)
              /\ wlog' = Append(wlog, [g |-> g, off |-> Len(sink), kind |-> w.kind,
                                       p |-> w.p, ans |-> w.ans, ok |-> w.ok, n |-> w.n])
              /\ gor' = [gor EXCEPT ![g] =
                    IF ~w.ok THEN [@ EXCEPT !.pc = "returned", !.err = WriteError(part.kind)]
                    ELSE IF gor[g].k = Len(parts) THEN [@ EXCEPT !.pc = "returned"]
                    ELSE [@ EXCEPT !.k = @ + 1]]
    /\ UNCHANGED <<hist, overlapped>>

---------------------------------------------------------------------------
(* Specifications *)

\* NewWriter(w): the sink is new and empty, or opened for append
InitialSinks == {<<>>, <<202, 254>>}

Init ==
    /\ sink \in InitialSinks
    /\ hist = <<>>
    /\ gor = [g \in Goroutines |-> [pc |-> "idle"]]
    /\ wlog = <<>>
    /\ overlapped = FALSE

\* calls made one after the other, from the small input sets
Next == WriteFileHeader \/ WritePacket

Spec == Init /\ [][Next]_vars

\* one call, from the wide input sets
NextAny == WriteFileHeaderAny \/ WritePacketAny

SpecAny == Init /\ [][NextAny]_vars

\* two concurrent WritePacket calls
NextConc == \E g \in Goroutines : Call(g) \/ WriteStep(g)

SpecConc == Init /\ [][NextConc]_vars

---------------------------------------------------------------------------
(* Reading the sink back: a little-endian reader, and 64-bit arithmetic on  *)
(* limbs for the statements about timestamps                                *)

\* the uint32 / uint16 stored little-endian in s at byte offset off (from 0)
Uint32At(s, off) ==
    U32(s[off + 4] * 256 + s[off + 3], s[off + 2] * 256 + s[off + 1])
Uint16At(s, off) == s[off + 2] * 256 + s[off + 1]

U32Less(a, b) == a.hi < b.hi \/ (a.hi = b.hi /\ a.lo < b.lo)

\* 10^9 as a uint32
Billion == U32(15258, 51712)

\* m * f for a magnitude m of 5 limbs and 0 <= f <= 1000
MulSmall(m, f) ==
    LET c5 == m[5] * f
        c4 == m[4] * f + (c5 \div 65536)
        c3 == m[3] * f + (c4 \div 65536)
        c2 == m[2] * f + (c3 \div 65536)
        c1 == m[1] * f + (c2 \div 65536)
    IN  <<c1 % 65536, c2 % 65536, c3 % 65536, c4 % 65536, c5 % 65536>>

\* m + v for a magnitude m of 5 limbs and a uint32 v
AddU32(m, v) ==
    LET c5 == m[5] + v.lo
        c4 == m[4] + v.hi + (c5 \div 65536)
        c3 == m[3] + (c4 \div 65536)
        c2 == m[2] + (c3 \div 65536)
        c1 == m[1] + (c2 \div 65536)
    IN  <<c1 % 65536, c2 % 65536, c3 % 65536, c4 % 65536, c5 % 65536>>

\* (k * 2^32 + secs) * 10^9 + nsecs as a magnitude of 5 limbs
NanosOf(k, secs, nsecs) ==
    AddU32(MulSmall(MulSmall(MulSmall(<<0, 0, k, secs.hi, secs.lo>>, 1000), 1000), 1000),
           nsecs)

\* a non-negative int64 as a magnitude of 5 limbs
Mag5(x) == <<0>> \o x.mag

---------------------------------------------------------------------------
(* The calls of a run *)

Calls == DOMAIN hist

\* the sink content when call i returned
After(i) == IF i = Len(hist) THEN sink ELSE hist[i + 1].before

\* call i left what the sink held before it in place
Extends(i) ==
    /\ Len(After(i)) >= Len(hist[i].before)
    /\ SubSeq(After(i), 1, Len(hist[i].before)) = hist[i].before

\* the bytes call i added to the sink
Appended(i) == SubSeq(After(i), Len(hist[i].before) + 1, Len(After(i)))

\* the sink accepted every write call i issued
AllAccepted(i) == \A k \in DOMAIN hist[i].writes : hist[i].writes[k].ok

IsHeaderCall(i) == hist[i].op = "WriteFileHeader"
IsPacketCall(i) == hist[i].op = "WritePacket"

\* the arguments of packet call i pass both checks
ValidPacket(i) ==
    /\ hist[i].args.ci.CaptureLength = IntOf(Len(hist[i].args.data))
    /\ ~IntGreater(hist[i].args.ci.CaptureLength, hist[i].args.ci.Length)

\* the sink accepted the packet header of packet call i
HeaderWritten(i) ==
    /\ IsPacketCall(i)
    /\ Len(hist[i].writes) >= 1
    /\ hist[i].writes[1].ok
    /\ Len(Appended(i)) >= 16

\* packet call i returned no error and its header is in the sink
RecordWritten(i) == HeaderWritten(i) /\ hist[i].err = Nil

---------------------------------------------------------------------------
(* C1 *)

\* C1: whatever snaplen and linktype are, a WriteFileHeader whose write the
\* sink accepts returns no error and appends, in one sink write, exactly 24
\* bytes: 4D 3C B2 A1, 02 00, 04 00, eight zero bytes, snaplen and linktype,
\* each little-endian, so that reading them back gives the arguments; and no
\* WriteFileHeader is refused without a sink write.
C1_FileHeader ==
    \A i \in Calls :
        IsHeaderCall(i) =>
            /\ Len(hist[i].writes) = 1
            /\ Len(hist[i].writes[1].p) = 24
            /\ hist[i].err \in {Nil, ErrSink}
            /\ AllAccepted(i) =>
                  LET b == Appended(i)
                  IN  /\ hist[i].err = Nil
                      /\ Extends(i)
                      /\ Len(b) = 24
                      /\ SubSeq(b, 1, 4) = <<77, 60, 178, 161>>
                      /\ Uint32At(b, 0) = U32(41394, 15437)
                      /\ SubSeq(b, 5, 8) = <<2, 0, 4, 0>>
                      /\ Uint16At(b, 4) = 2
                      /\ Uint16At(b, 6) = 4
                      /\ SubSeq(b, 9, 16) = <<0, 0, 0, 0, 0, 0, 0, 0>>
                      /\ Uint32At(b, 16) = hist[i].args.snaplen
                      /\ Uint32At(b, 20) = hist[i].args.linktype

\* WriteFileHeader(65536, 1) on an empty sink left the 24 bytes of scenario A
C1_Witness ==
    /\ Len(hist) = 1
    /\ IsHeaderCall(1)
    /\ hist[1].args = [snaplen |-> U32(1, 0), linktype |-> U32(0, 1)]
    /\ hist[1].err = Nil
    /\ sink = <<77, 60, 178, 161, 2, 0, 4, 0,  0, 0, 0, 0,  0, 0, 0, 0,
                0, 0, 1, 0,  1, 0, 0, 0>>

---------------------------------------------------------------------------
(* C2 *)

\* C2: a WritePacket whose captured length equals the payload length and is
\* at most the original length, on a sink that accepts every write, returns no
\* error and makes the sink grow by exactly 16 + captured-length bytes: the
\* little-endian fields seconds, nanoseconds (the timestamp itself whenever it
\* is non-negative and its seconds fit 32 bits), captured length, original
\* length (its low 32 bits), then the payload unchanged, and nothing else.
C2_PacketRecord ==
    \A i \in Calls :
        (IsPacketCall(i) /\ ValidPacket(i) /\ AllAccepted(i)) =>
            LET b == Appended(i)
                ci == hist[i].args.ci
                data == hist[i].args.data
                fits == ~ci.Timestamp.neg /\ MagLess(ci.Timestamp.mag, <<15258, 51712, 0, 0>>)
            IN  /\ hist[i].err = Nil
                /\ Extends(i)
                /\ Len(hist[i].writes) = 2
                /\ Len(b) = 16 + Len(data)
                /\ fits => /\ NanosOf(0, Uint32At(b, 0), Uint32At(b, 4)) = Mag5(ci.Timestamp)
                           /\ U32Less(Uint32At(b, 4), Billion)
                /\ Uint32At(b, 8) = U32(0, Len(data))
                /\ Uint32At(b, 12) = U32(ci.Length.mag[3], ci.Length.mag[4])
                /\ SubSeq(b, 17, 16 + Len(data)) = data

\* scenario B: 1000 s + 500 ns, both lengths 4, payload DE AD BE EF
C2_Witness ==
    /\ Len(hist) = 1
    /\ IsPacketCall(1)
    /\ hist[1].args.ci = [Timestamp |-> TsScenarioB, CaptureLength |-> IntOf(4),
                          Length |-> IntOf(4)]
    /\ hist[1].err = Nil
    /\ sink = hist[1].before \o <<232, 3, 0, 0,  244, 1, 0, 0,  4, 0, 0, 0,  4, 0, 0, 0,
                                  222, 173, 190, 239>>

---------------------------------------------------------------------------
(* C3 *)

\* C3: a WritePacket whose captured length differs from the payload length
\* returns the length-mismatch validation error, issues no sink write and
\* leaves the sink content as it was, whatever the original length and the
\* timestamp are.
C3_LengthMismatch ==
    \A i \in Calls :
        (IsPacketCall(i) /\ hist[i].args.ci.CaptureLength # IntOf(Len(hist[i].args.data))) =>
            /\ hist[i].err = ErrLengthMismatch
            /\ hist[i].writes = <<>>
            /\ After(i) = hist[i].before

\* scenario C: the payload is longer than the declared captured length, which
\* is itself within the original length
C3_Witness ==
    /\ Len(hist) = 1
    /\ IsPacketCall(1)
    /\ Len(hist[1].args.data) = MaxLen
    /\ hist[1].args.ci.CaptureLength = IntOf(MaxLen - 1)
    /\ hist[1].args.ci.Length = IntOf(MaxLen)
    /\ hist[1].err = ErrLengthMismatch
    /\ sink = hist[1].before

---------------------------------------------------------------------------
(* C4 *)

\* C4: a WritePacket whose captured length is greater than the original
\* length returns a validation error, issues no sink write and leaves the
\* sink content as it was, also when the captured length equals the payload
\* length.
C4_CaptureGreater ==
    \A i \in Calls :
        (IsPacketCall(i)
            /\ IntGreater(hist[i].args.ci.CaptureLength, hist[i].args.ci.Length)) =>
            /\ hist[i].err \in ValidationErrors
            /\ hist[i].args.ci.CaptureLength = IntOf(Len(hist[i].args.data))
                  => hist[i].err = ErrCaptureGreater
            /\ hist[i].writes = <<>>
            /\ After(i) = hist[i].before

\* scenario D: the captured length equals the payload length and exceeds the
\* original length
C4_Witness ==
    /\ Len(hist) = 1
    /\ IsPacketCall(1)
    /\ hist[1].args.ci.CaptureLength = IntOf(Len(hist[1].args.data))
    /\ hist[1].args.ci.CaptureLength = IntOf(MaxLen)
    /\ hist[1].args.ci.Length = IntOf(MaxLen - 1)
    /\ hist[1].err = ErrCaptureGreater
    /\ sink = hist[1].before

---------------------------------------------------------------------------
(* C5 *)

\* C5 as stated: for every non-negative timestamp T of the int64 range, the
\* seconds field of a written packet header is T div 10^9 and the nanoseconds
\* field is T mod 10^9, below 10^9: T = seconds * 10^9 + nanoseconds.
C5_AsStated ==
    \A i \in Calls :
        (RecordWritten(i) /\ ~hist[i].args.ci.Timestamp.neg) =>
            LET b == Appended(i)
            IN  /\ U32Less(Uint32At(b, 4), Billion)
                /\ NanosOf(0, Uint32At(b, 0), Uint32At(b, 4)) = Mag5(hist[i].args.ci.Timestamp)

\* C5, amended: for every non-negative timestamp T of the int64 range, the
\* seconds field of a written packet header is (T div 10^9) mod 2^32 and the
\* nanoseconds field is T mod 10^9, below 10^9:
\* T = (k * 2^32 + seconds) * 10^9 + nanoseconds for some k; and k = 0, the
\* seconds field being T div 10^9 itself, whenever T < 2^32 * 10^9.
C5_Timestamp ==
    \A i \in Calls :
        (RecordWritten(i) /\ ~hist[i].args.ci.Timestamp.neg) =>
            LET b == Appended(i)
                T == hist[i].args.ci.Timestamp
            IN  /\ U32Less(Uint32At(b, 4), Billion)
                /\ \E k \in 0..3 : NanosOf(k, Uint32At(b, 0), Uint32At(b, 4)) = Mag5(T)
                /\ MagLess(T.mag, <<15258, 51712, 0, 0>>)
                      => NanosOf(0, Uint32At(b, 0), Uint32At(b, 4)) = Mag5(T)

\* the timestamp 2^32 * 10^9 ns was written with the seconds field 0
C5_Witness ==
    /\ Len(hist) = 1
    /\ RecordWritten(1)
    /\ hist[1].args.ci.Timestamp = TsFirstWrapping
    /\ Uint32At(Appended(1), 0) = U32(0, 0)
    /\ Uint32At(Appended(1), 4) = U32(0, 0)

---------------------------------------------------------------------------
(* C9 *)

\* C9: in every packet header WritePacket writes, for any timestamp, also one
\* before the epoch, the nanoseconds field is below 10^9.
C9_NanosecondsInRange ==
    \A i \in Calls :
        RecordWritten(i) => U32Less(Uint32At(Appended(i), 4), Billion)

---------------------------------------------------------------------------
(* C6 *)

\* the sink length a run of one file header and the packets 2..i accounts
\* for: what the sink held at first, 24, and 16 + payload length per packet
RECURSIVE EndOf(_)
EndOf(i) ==
    IF i = 1 THEN Len(hist[1].before) + 24
    ELSE EndOf(i - 1) + 16 + Len(hist[i].args.data)

\* the run so far is one WriteFileHeader and then WritePackets only, and
\* every call returned no error
HeaderThenPackets ==
    /\ Len(hist) >= 1
    /\ IsHeaderCall(1)
    /\ \A i \in Calls : hist[i].err = Nil /\ (i > 1 => IsPacketCall(i))

\* C6: after one successful WriteFileHeader followed by successful WritePacket
\* calls, the sink holds what it held at first (nothing, for a new file) and
\* then exactly 24 + the sum of (16 + captured length) bytes: the file header,
\* then per packet, in call order, its 16-byte header immediately followed by
\* its payload, with nothing between the records and nothing after them.
C6_Sequence ==
    HeaderThenPackets =>
        LET base == Len(hist[1].before)
        IN  /\ Len(sink) = EndOf(Len(hist))
            /\ SubSeq(sink, 1, base) = hist[1].before
            /\ SubSeq(sink, base + 1, base + 8) = <<77, 60, 178, 161, 2, 0, 4, 0>>
            /\ Uint32At(sink, base + 16) = hist[1].args.snaplen
            /\ Uint32At(sink, base + 20) = hist[1].args.linktype
            /\ \A i \in 2..Len(hist) :
                  LET off == EndOf(i - 1)
                      ci == hist[i].args.ci
                      data == hist[i].args.data
                  IN  /\ NanosOf(0, Uint32At(sink, off), Uint32At(sink, off + 4))
                            = Mag5(ci.Timestamp)
                      /\ Uint32At(sink, off + 8) = U32(0, Len(data))
                      /\ Uint32At(sink, off + 12) = U32(ci.Length.mag[3], ci.Length.mag[4])
                      /\ SubSeq(sink, off + 17, off + 16 + Len(data)) = data

\* a new file: the header, a packet of MaxLen bytes, then a packet of 1 byte
C6_Witness ==
    /\ HeaderThenPackets
    /\ Len(hist) = 3
    /\ hist[1].before = <<>>
    /\ Len(hist[2].args.data) = MaxLen
    /\ Len(hist[3].args.data) = 1
    /\ Len(sink) = 24 + (16 + MaxLen) + (16 + 1)

---------------------------------------------------------------------------
(* C7 *)

\* the bytes the sink accepted of the writes ws, in order
RECURSIVE AcceptedBytes(_)
AcceptedBytes(ws) ==
    IF ws = <<>> THEN <<>>
    ELSE SubSeq(Head(ws).p, 1, Head(ws).n) \o AcceptedBytes(Tail(ws))

SomeWriteFailed(i) == \E k \in DOMAIN hist[i].writes : ~hist[i].writes[k].ok

\* C7: when a sink write fails during WriteFileHeader or WritePacket, the
\* call returns an error; the failed write is the last write of the call (it
\* is not retried and no further write follows: after a failed packet-header
\* write the payload is never written); and the bytes the sink accepted stay:
\* when the packet-header write succeeds and the payload write fails, the 16
\* header bytes remain in the sink.
C7_SinkFailure ==
    \A i \in Calls :
        SomeWriteFailed(i) =>
            LET ws == hist[i].writes
            IN  /\ hist[i].err # Nil
                /\ hist[i].err \notin ValidationErrors
                /\ \A k \in DOMAIN ws : ~ws[k].ok => k = Len(ws)
                /\ Len(ws) <= (IF IsPacketCall(i) THEN 2 ELSE 1)
                /\ \A k \in DOMAIN ws :
                      ws[k].kind = (IF IsHeaderCall(i) THEN "file header"
                                    ELSE IF k = 1 THEN "packet header" ELSE "payload")
                /\ After(i) = hist[i].before \o AcceptedBytes(ws)
                /\ (IsPacketCall(i) /\ Len(ws) = 2) =>
                      /\ Len(ws[1].p) = 16
                      /\ SubSeq(After(i), Len(hist[i].before) + 1, Len(hist[i].before) + 16)
                            = ws[1].p

\* the sink took a packet header and then failed the payload write half way:
\* WritePacket returned the sink's error and the header bytes are in the sink
C7_Witness ==
    \E i \in Calls :
        /\ IsPacketCall(i)
        /\ Len(hist[i].writes) = 2
        /\ hist[i].writes[1].ok
        /\ hist[i].writes[2].ans = "short"
        /\ Len(hist[i].args.data) = MaxLen
        /\ hist[i].err = ErrSink
        /\ Len(After(i)) = Len(hist[i].before) + 16 + (MaxLen \div 2)

---------------------------------------------------------------------------
(* C8 *)

\* the answers of the sink to the writes of call i
Answers(i) == [k \in DOMAIN hist[i].writes |-> hist[i].writes[k].ans]

\* C8: what a call returns and appends depends only on its arguments and on
\* the answers of the sink, not on the calls before it: two calls of a run
\* with equal arguments and equal answers return the same and append the same
\* bytes; no WriteFileHeader and no valid WritePacket is refused before its
\* first sink write, whatever came before (a failed call, an earlier file
\* header, no file header at all); and it succeeds when the sink accepts its
\* writes.
C8_Stateless ==
    /\ \A i \in Calls, j \in Calls :
          (hist[i].op = hist[j].op /\ hist[i].args = hist[j].args
              /\ Answers(i) = Answers(j)) =>
              /\ hist[i].err = hist[j].err
              /\ Appended(i) = Appended(j)
    /\ \A i \in Calls :
          /\ IsHeaderCall(i) =>
                /\ Len(hist[i].writes) = 1
                /\ AllAccepted(i) => (hist[i].err = Nil /\ Len(Appended(i)) = 24)
          /\ (IsPacketCall(i) /\ ValidPacket(i)) =>
                /\ Len(hist[i].writes) >= 1
                /\ AllAccepted(i) =>
                      /\ hist[i].err = Nil
                      /\ Len(Appended(i)) = 16 + Len(hist[i].args.data)

\* a WritePacket before any WriteFileHeader succeeded, then a WriteFileHeader
\* failed, and the same WriteFileHeader made again succeeded
C8_Witness ==
    /\ Len(hist) = 3
    /\ IsPacketCall(1) /\ hist[1].err = Nil
    /\ IsHeaderCall(2) /\ hist[2].err = ErrSink
    /\ IsHeaderCall(3) /\ hist[3].err = Nil
    /\ hist[3].args = hist[2].args
    /\ Len(Appended(3)) = 24

---------------------------------------------------------------------------
(* C10 *)

Writes == DOMAIN wlog

\* sink write i is a packet header the sink accepted
HeaderInSink(i) == wlog[i].kind = "packet header" /\ wlog[i].ok

\* the payload of the same call lies in the sink right behind header i
OwnPayloadBehind(i) ==
    \E j \in Writes :
        /\ wlog[j].g = wlog[i].g
        /\ wlog[j].kind = "payload"
        /\ wlog[j].ok
        /\ wlog[j].off = wlog[i].off + 16

\* bytes of the other call (its header or its payload) lie in the sink right
\* behind header i
OtherBehind(i) ==
    \E j \in Writes :
        /\ wlog[j].g # wlog[i].g
        /\ wlog[j].n > 0
        /\ wlog[j].off = wlog[i].off + 16

\* a packet header is followed in the sink by the other packet's header or
\* payload rather than by its own payload
Interleaved ==
    \E i \in Writes : HeaderInSink(i) /\ ~OwnPayloadBehind(i) /\ OtherBehind(i)

====
